---- MODULE Spec2Model ----
(***************************************************************************)
(* Model of PDF_export_data.py: the per-document processor                 *)
(* process_single_pdf (upload, await-ready poll, ready-check, generate,    *)
(* JSON decode, citation validation, cleanup in the finally block) and the *)
(* two batch front ends main_cli and main_streamlit that accumulate the    *)
(* validated records and append them to the JSONL output file.             *)
(*                                                                         *)
(* The remote service (upload_file, get_file, generate_content,            *)
(* delete_file) is the environment: every call may raise, and otherwise    *)
(* returns any value of its result domain.  The local file system is taken *)
(* to be reliable.  One step of the model runs the program from one remote *)
(* call (or the output write) to just before the next one.                 *)
(***************************************************************************)
EXTENDS Integers, Sequences, FiniteSets, TLC

\* ------------------------------------------------------------------ bounds
\* Most entries a listed directory holds.
MaxEntries == 2
\* Most invocations of a front end against the same output file.
MaxRuns == 2
\* The count of get_file calls of one document saturates here; the polling
\* loop itself is not bounded.
MaxPolls == 2

\* len(source_quote) < 10 rejects the candidate.
MinQuoteLen == 10
\* How many rejections are listed by name: warnings[:5] on the console,
\* warnings[:3] in the browser.
SampleCli == 5
SampleStreamlit == 3

None == [name |-> <<>>, state |-> "None"]

\* ------------------------------------------------------- decoded JSON values
\* A decoded JSON value, reduced to what the validation reads: its Python
\* type and its size (int/float/bool: the value; str/list: the length).
Absent == [t |-> "absent", n |-> 0]
JNull == [t |-> "null", n |-> 0]
JInt(k) == [t |-> "int", n |-> k]
JBool(k) == [t |-> "bool", n |-> k]
JFloat(k) == [t |-> "float", n |-> k]
JStr(len) == [t |-> "str", n |-> len]
JList(len) == [t |-> "list", n |-> len]

\* key in entry
HasKey(v) == v.t # "absent"

\* bool(entry.get(key)): a missing key gives None; None, False, 0, 0.0, ""
\* and [] are falsy.
Truthy(v) == v.t \notin {"absent", "null"} /\ v.n # 0

\* isinstance(v, int): bool is a subclass of int.
IsInstanceInt(v) == v.t \in {"int", "bool"}

\* Whether len(v) is defined; len of a number or a bool raises TypeError.
HasLen(v) == v.t \in {"str", "list"}

\* One element of the decoded array.  kind "dict" is a JSON object, "str" a
\* JSON string holding none of the three key names, "int" a JSON number.
\* instruction stands for the rest of the record (question, context, answer).
Candidate(kind, tag, p, q, s) ==
    [kind |-> kind, instruction |-> tag, page_number |-> p, source_quote |-> q, section |-> s]

\* ------------------------------------------------- validation (lines 114-133)
\* `'page_number' not in entry` on a number raises TypeError.
EntryTypeError(entry) == entry.kind = "int"

PageMissing(entry) ==
    \/ entry.kind # "dict"
    \/ ~HasKey(entry.page_number)
    \/ ~IsInstanceInt(entry.page_number)

\* The third disjunct of line 124 is reached only for a present, truthy value.
QuoteLenReached(entry) ==
    entry.kind = "dict" /\ HasKey(entry.source_quote) /\ Truthy(entry.source_quote)

QuoteTypeError(entry) == QuoteLenReached(entry) /\ ~HasLen(entry.source_quote)

QuoteMissing(entry) ==
    \/ ~QuoteLenReached(entry)
    \/ entry.source_quote.n < MinQuoteLen

SectionMissing(entry) ==
    \/ entry.kind # "dict"
    \/ ~HasKey(entry.section)
    \/ ~Truthy(entry.section)

EntryRaises(entry) == EntryTypeError(entry) \/ QuoteTypeError(entry)

\* missing_fields of one entry, in the order the checks append them.
MissingFields(entry) ==
    (IF PageMissing(entry) THEN <<"page_number">> ELSE <<>>)
    \o (IF QuoteMissing(entry) THEN <<"source_quote (min 10 chars)">> ELSE <<>>)
    \o (IF SectionMissing(entry) THEN <<"section">> ELSE <<>>)

\* The loop of lines 118-133 from entry i on: the lists built so far, and
\* raised when an entry's checks raise (the loop stops there).
RECURSIVE ValidateLoop(_, _, _, _)
ValidateLoop(batch_data, i, validated_data, warnings) ==
    IF i > Len(batch_data)
    THEN [raised |-> FALSE, validated_data |-> validated_data, warnings |-> warnings]
    ELSE IF EntryRaises(batch_data[i])
    THEN [raised |-> TRUE, validated_data |-> validated_data, warnings |-> warnings]
    ELSE IF MissingFields(batch_data[i]) # <<>>
    THEN ValidateLoop(batch_data, i + 1, validated_data,
                      Append(warnings, [idx |-> i, missing |-> MissingFields(batch_data[i])]))
    ELSE ValidateLoop(batch_data, i + 1, Append(validated_data, batch_data[i]), warnings)

Validate(batch_data) == ValidateLoop(batch_data, 1, <<>>, <<>>)

\* -------------------------------------------- json.dumps (lines 196 and 267)
\* The JSON text of one value: its token kind and size.  An int is written
\* as a number, a bool as true/false, None as null, a str as a string.
DumpsValue(v) ==
    CASE v.t = "int" -> [tok |-> "number", n |-> v.n]
      [] v.t = "float" -> [tok |-> "number", n |-> v.n]
      [] v.t = "bool" -> [tok |-> IF v.n = 0 THEN "false" ELSE "true", n |-> v.n]
      [] v.t = "str" -> [tok |-> "string", n |-> v.n]
      [] v.t = "list" -> [tok |-> "array", n |-> v.n]
      [] v.t = "null" -> [tok |-> "null", n |-> 0]
      [] OTHER -> [tok |-> "nokey", n |-> 0]

\* json.dumps(entry, ensure_ascii=False) + '\n': one line of the output file.
Dumps(entry) ==
    [instruction |-> entry.instruction,
     page_number |-> DumpsValue(entry.page_number),
     source_quote |-> DumpsValue(entry.source_quote),
     section |-> DumpsValue(entry.section)]

\* The lines written for a list of records, in the list's order.
DumpsAll(data) == [i \in 1..Len(data) |-> Dumps(data[i])]

\* -------------------------------------------- file discovery (lines 175-181)
\* A file name is a sequence of characters.
NamePdfLower == <<"a", ".", "p", "d", "f">>
NamePdfUpper == <<"B", ".", "P", "D", "F">>
NameTxt == <<"n", ".", "t", "x", "t">>
Names == {NamePdfLower, NamePdfUpper, NameTxt}

\* ord(c) of the characters used.
Ord(c) ==
    CASE c = "." -> 46 [] c = "B" -> 66 [] c = "D" -> 68 [] c = "F" -> 70
      [] c = "P" -> 80 [] c = "a" -> 97 [] c = "d" -> 100 [] c = "f" -> 102
      [] c = "n" -> 110 [] c = "p" -> 112 [] c = "t" -> 116 [] c = "x" -> 120

\* str.lower() of one character.
LowerChar(c) ==
    CASE c = "B" -> "b" [] c = "D" -> "d" [] c = "F" -> "f" [] c = "P" -> "p"
      [] OTHER -> c

Lower(name) == [i \in 1..Len(name) |-> LowerChar(name[i])]

EndsWith(name, suffix) ==
    /\ Len(name) >= Len(suffix)
    /\ SubSeq(name, Len(name) - Len(suffix) + 1, Len(name)) = suffix

DotPdf == <<".", "p", "d", "f">>

\* As IsPdf, were the extension not looked at.
IsPdfAnyFile(name) == TRUE
\* filename.lower().endswith(".pdf")
IsPdf(name) == EndsWith(Lower(name), DotPdf)

\* Python's str < str: by code point, a proper prefix first.
RECURSIVE StrLess(_, _)
StrLess(a, b) ==
    IF a = <<>> THEN b # <<>>
    ELSE IF b = <<>> THEN FALSE
    ELSE IF Ord(Head(a)) # Ord(Head(b)) THEN Ord(Head(a)) < Ord(Head(b))
    ELSE StrLess(Tail(a), Tail(b))

\* sorted(os.listdir(path))
RECURSIVE Sorted(_)
Sorted(S) ==
    IF S = {} THEN <<>>
    ELSE LET least == CHOOSE x \in S : \A y \in S \ {x} : StrLess(x, y)
         IN <<least>> \o Sorted(S \ {least})

\* What the command line names: one file, a directory, or nothing there.
InputPaths ==
    {[kind |-> "file", name |-> nm, entries |-> {}] : nm \in Names}
    \cup {[kind |-> "dir", name |-> <<>>, entries |-> S] :
            S \in {T \in SUBSET Names : Cardinality(T) <= MaxEntries}}
    \cup {[kind |-> "missing", name |-> <<>>, entries |-> {}]}

\* files_to_process of main_cli.
Discover(input_path) ==
    IF input_path.kind = "file"
    THEN IF IsPdf(input_path.name) THEN <<input_path.name>> ELSE <<>>
    ELSE IF input_path.kind = "dir"
    THEN SelectSeq(Sorted(input_path.entries), IsPdf)
    ELSE <<>>

\* What the upload widget hands over: PDF files only (type="pdf").
Uploads == {Sorted(S) : S \in SUBSET {n \in Names : IsPdf(n)}}

\* ------------------------------------------------------- the remote service
\* uploaded_file.state.name
FileStates == {"PROCESSING", "ACTIVE", "FAILED", "STATE_UNSPECIFIED"}

\* The candidates a response may hold, by shape.
ShapeOf(shape, tag) ==
    CASE shape = "valid" -> Candidate("dict", tag, JInt(3), JStr(MinQuoteLen), JStr(5))
      [] shape = "no_section" -> Candidate("dict", tag, JInt(3), JStr(MinQuoteLen), Absent)
      [] shape = "empty_section" -> Candidate("dict", tag, JInt(0), JStr(MinQuoteLen + 1), JStr(0))
      [] shape = "short_quote" -> Candidate("dict", tag, JInt(3), JStr(MinQuoteLen - 1), JStr(5))
      [] shape = "str_page" -> Candidate("dict", tag, JStr(1), JStr(0), JStr(5))
      [] shape = "null_all" -> Candidate("dict", tag, JNull, JNull, JNull)
      [] shape = "no_keys" -> Candidate("dict", tag, Absent, Absent, Absent)
      [] shape = "bool_page" -> Candidate("dict", tag, JBool(1), JStr(MinQuoteLen), JStr(5))
      [] shape = "int_quote" -> Candidate("dict", tag, JInt(3), JInt(5), JStr(5))
      [] shape = "float_page" -> Candidate("dict", tag, JFloat(3), JStr(MinQuoteLen), JStr(5))
      [] shape = "list_quote" -> Candidate("dict", tag, JInt(3), JList(MinQuoteLen), JStr(5))
      [] shape = "json_string" -> Candidate("str", tag, Absent, Absent, Absent)
      [] shape = "json_number" -> Candidate("int", tag, Absent, Absent, Absent)

\* The decoded arrays the model answers with, as sequences of shapes.
Arrays ==
    { <<>>,
      <<"valid", "no_section", "valid">>,
      <<"no_keys", "short_quote", "str_page">>,
      <<"null_all", "empty_section", "json_string">>,
      <<"bool_page", "list_quote">>,
      <<"valid", "int_quote", "valid">>,
      <<"valid", "json_number">>,
      <<"no_keys", "float_page", "short_quote", "str_page">> }

\* What generate_content, response.text and json.loads give: the call
\* raises, the text is not JSON, it is a JSON number, or it is an array.
Responses ==
    {[kind |-> k, items |-> <<>>] : k \in {"raise", "not_json", "number"}}
    \cup {[kind |-> "array", items |-> a] : a \in Arrays}

\* batch_data of document idx of run r: candidate pos carries <<r, idx, pos>>.
BatchData(r, idx, items) == [pos \in 1..Len(items) |-> ShapeOf(items[pos], <<r, idx, pos>>)]

\* ------------------------------------------------------------------- state
VARIABLES
    pc,               \* where the program is: idle, upload, poll, generate, cleanup, persist
    mode,             \* the front end of the current (or last) run: cli, streamlit
    runs,             \* invocations started so far
    input_path,       \* what the run was given
    files_to_process, \* the discovered (or uploaded) files, in order
    idx,              \* position in files_to_process of the current document
    all_data,         \* the batch accumulator
    outfile,          \* the output file: whether it exists, and its lines
    uploaded_file,    \* the handle of process_single_pdf, or None
    batch_data,       \* the decoded response of the current document
    ret,              \* what process_single_pdf returns (set in the try or except block)
    warnings,         \* the rejections of the current document
    call,             \* the current (or last) process_single_pdf call, observed
    remoteUsed,       \* whether the run has made a remote call
    notice,           \* the run's closing message
    pre,              \* the output file as the run found it
    results,          \* what each finished call of the run returned
    written           \* the records each finished run appended

vars == <<pc, mode, runs, input_path, files_to_process, idx, all_data, outfile,
          uploaded_file, batch_data, ret, warnings, call, remoteUsed, notice, pre, results,
          written>>

NoCall ==
    [outcome |-> "none", errors |-> 0, upload |-> 0, handle |-> FALSE, polls |-> 0,
     generate |-> 0, delete |-> 0, deleteRaised |-> FALSE, lastFetch |-> "None",
     exit |-> "try", response |-> "None", shown |-> 0]

NoInput == [kind |-> "none", name |-> <<>>, entries |-> {}]

Init ==
    /\ pc = "idle"
    /\ mode = "cli"
    /\ runs = 0
    /\ input_path = NoInput
    /\ files_to_process = <<>>
    /\ idx = 0
    /\ all_data = <<>>
    /\ outfile = [exists |-> FALSE, lines |-> <<>>]
    /\ uploaded_file = None
    /\ batch_data = <<>>
    /\ ret = <<>>
    /\ warnings = <<>>
    /\ call = NoCall
    /\ remoteUsed = FALSE
    /\ notice = "none"
    /\ pre = [exists |-> FALSE, lines |-> <<>>]
    /\ results = <<>>
    /\ written = <<>>

\* ------------------------------------------- process_single_pdf (lines 43-163)
\* As KeepPolling, were the loop to wait for ACTIVE.
KeepPollingUntilActive(state) == state # "ACTIVE"
\* while uploaded_file.state.name == "PROCESSING"
KeepPolling(state) == state = "PROCESSING"

\* As ReadyCheck, were only FAILED refused.
ReadyCheckNotFailed(state) == state # "FAILED"
\* the ready-check passes: not (uploaded_file.state.name != "ACTIVE")
ReadyCheck(state) == state = "ACTIVE"

\* As ExceptReturn, were the except block to return what was validated.
ExceptReturnPartial(validated_data) == validated_data
\* except Exception: ... return []
ExceptReturn(validated_data) == <<>>

\* As NeedsDelete, were only a handle that became ACTIVE deleted.
NeedsDeleteWhenActive(uf) == uf # None /\ uf.state = "ACTIVE"
\* finally: if uploaded_file:
NeedsDelete(uf) == uf # None

\* The except block: one message (status_container.error or print).
Except(c) == [c EXCEPT !.exit = "except", !.errors = @ + 1]

\* Where the try block goes after a call that gave r: the handle's state, or
\* "raise".  Back into the loop, on to generate, or out through the except
\* block.
AfterFetch(r) ==
    IF r = "raise" THEN "cleanup"
    ELSE IF KeepPolling(r) THEN "poll"
    ELSE IF ReadyCheck(r) THEN "generate"
    ELSE "cleanup"

Min(a, b) == IF a < b THEN a ELSE b

\* The call begins: genai.upload_file(file_path), then the loop condition
\* and the ready-check on the state it returned.
Upload ==
    /\ pc = "upload"
    /\ \E r \in {"raise"} \cup FileStates :
         /\ uploaded_file' = IF r = "raise" THEN None
                             ELSE [name |-> <<runs, idx>>, state |-> r]
         /\ call' = LET c == [NoCall EXCEPT !.outcome = "running", !.upload = 1,
                                            !.handle = (r # "raise"), !.lastFetch = r]
                    IN IF AfterFetch(r) = "cleanup" THEN Except(c) ELSE c
         /\ pc' = AfterFetch(r)
    /\ batch_data' = <<>>
    /\ ret' = <<>>
    /\ warnings' = <<>>
    /\ remoteUsed' = TRUE
    /\ UNCHANGED <<mode, runs, input_path, files_to_process, idx, all_data, outfile,
                   notice, pre, results, written>>

\* One turn of the loop: time.sleep(2); genai.get_file(uploaded_file.name)
\* gives r.  When it raises, uploaded_file keeps the handle it held.
GetFileGives(r) ==
    /\ pc = "poll"
    /\ uploaded_file' = IF r = "raise" THEN uploaded_file
                        ELSE [uploaded_file EXCEPT !.state = r]
    /\ call' = LET c == [call EXCEPT !.polls = Min(@ + 1, MaxPolls), !.lastFetch = r]
               IN IF AfterFetch(r) = "cleanup" THEN Except(c) ELSE c
    /\ pc' = AfterFetch(r)
    /\ UNCHANGED <<mode, runs, input_path, files_to_process, idx, all_data, outfile,
                   batch_data, ret, warnings, remoteUsed, notice, pre, results, written>>

GetFile == \E r \in {"raise"} \cup FileStates : GetFileGives(r)

\* model.generate_content, json.loads, the validation loop and the report.
Generate ==
    /\ pc = "generate"
    /\ \E resp \in Responses :
         LET decoded == BatchData(runs, idx, resp.items)
             v == Validate(decoded)
             failed == resp.kind # "array" \/ v.raised
             sample == IF mode = "cli" THEN SampleCli ELSE SampleStreamlit
         IN /\ batch_data' = decoded
            /\ ret' = IF failed THEN ExceptReturn(v.validated_data) ELSE v.validated_data
            /\ warnings' = IF failed THEN <<>> ELSE v.warnings
            /\ call' = LET c == [call EXCEPT !.generate = @ + 1,
                                             !.response = resp.kind,
                                             !.shown = IF failed THEN 0
                                                       ELSE Min(Len(v.warnings), sample)]
                       IN IF failed THEN Except(c) ELSE c
    /\ pc' = "cleanup"
    /\ UNCHANGED <<mode, runs, input_path, files_to_process, idx, all_data, outfile,
                   uploaded_file, remoteUsed, notice, pre, results, written>>

\* As Extend, were the accumulator assigned instead of extended.
ExtendOverwrite(data, batch) == batch
\* all_data.extend(batch_data)
Extend(data, batch) == data \o batch

\* The finally block (genai.delete_file, its failure swallowed), the return,
\* and the caller's all_data.extend(batch_data) and loop step.
Cleanup ==
    /\ pc = "cleanup"
    /\ \E raised \in (IF NeedsDelete(uploaded_file) THEN BOOLEAN ELSE {FALSE}) :
         call' = [call EXCEPT !.delete = IF NeedsDelete(uploaded_file) THEN @ + 1 ELSE @,
                              !.deleteRaised = raised,
                              !.outcome = IF call.exit = "except" THEN "Failed"
                                          ELSE "Completed"]
    /\ uploaded_file' = None
    /\ all_data' = Extend(all_data, ret)
    /\ results' = Append(results, [exit |-> call.exit, ret |-> ret, idx |-> idx])
    /\ idx' = idx + 1
    /\ pc' = IF idx < Len(files_to_process) THEN "upload" ELSE "persist"
    /\ UNCHANGED <<mode, runs, input_path, files_to_process, outfile, batch_data, ret,
                   warnings, remoteUsed, notice, pre, written>>

\* --------------------------------------------------- main_cli (lines 165-200)
\* A run begins with files: the locals of the run, and the loop's first turn.
BeginRun(m, ip, files, emptyNotice) ==
    /\ pc = "idle"
    /\ runs < MaxRuns
    /\ runs' = runs + 1
    /\ mode' = m
    /\ input_path' = ip
    /\ files_to_process' = files
    /\ all_data' = <<>>
    /\ idx' = 1
    /\ uploaded_file' = None
    /\ batch_data' = <<>>
    /\ ret' = <<>>
    /\ warnings' = <<>>
    /\ call' = NoCall
    /\ remoteUsed' = FALSE
    /\ pre' = outfile
    /\ results' = <<>>
    /\ IF files = <<>>
       THEN /\ notice' = emptyNotice
            /\ pc' = "idle"
            /\ written' = Append(written, <<>>)
       ELSE /\ notice' = "none"
            /\ pc' = "upload"
            /\ written' = written
    /\ outfile' = outfile

\* main_cli up to the loop: discovery, and the return when nothing is found.
main_cli == \E ip \in InputPaths : BeginRun("cli", ip, Discover(ip), "no_pdf_found")

\* main_streamlit up to the loop (lines 207-216): the Start button with the
\* uploaded files, and the return when there are none.
main_streamlit ==
    \E up \in Uploads :
        BeginRun("streamlit", [kind |-> "upload", name |-> <<>>, entries |-> {}], up,
                 "please_upload")

\* As OpenMode, were the file always opened with 'w'.
OpenModeAlwaysWrite(exists) == "w"
\* mode = 'a' if os.path.exists(path) else 'w'
OpenMode(exists) == IF exists THEN "a" ELSE "w"

\* As WriteFile, were 'a' to truncate as 'w' does.
WriteFileFresh(f, m, lines) == [exists |-> TRUE, lines |-> lines]
\* open(path, mode) and the writes: 'w' truncates or creates, 'a' appends.
WriteFile(f, m, lines) ==
    [exists |-> TRUE, lines |-> (IF m = "a" THEN f.lines ELSE <<>>) \o lines]

\* After the loop: `if all_data:` writes one line per record (lines 191-198
\* and 264-281), else only the notice (lines 200 and 286).
Persist ==
    /\ pc = "persist"
    /\ IF all_data # <<>>
       THEN /\ outfile' = WriteFile(outfile, OpenMode(outfile.exists), DumpsAll(all_data))
            /\ notice' = "task_complete"
            /\ written' = Append(written, DumpsAll(all_data))
       ELSE /\ outfile' = outfile
            /\ notice' = "no_data_extracted"
            /\ written' = Append(written, <<>>)
    /\ pc' = "idle"
    /\ UNCHANGED <<mode, runs, input_path, files_to_process, idx, all_data,
                   uploaded_file, batch_data, ret, warnings, call, remoteUsed, pre, results>>

Next ==
    \/ main_cli
    \/ main_streamlit
    \/ Upload
    \/ GetFile
    \/ Generate
    \/ Cleanup
    \/ Persist

Spec == Init /\ [][Next]_vars

\* The remote calls return and the program runs on; the service in the end
\* reports a state other than PROCESSING, or a call fails.
GetFileResolves == \E r \in ({"raise"} \cup FileStates) \ {"PROCESSING"} : GetFileGives(r)

FairSpec ==
    /\ Init
    /\ [][Next]_vars
    /\ WF_vars(Upload)
    /\ WF_vars(GetFileResolves)
    /\ WF_vars(Generate)
    /\ WF_vars(Cleanup)
    /\ WF_vars(Persist)

\* ================================================================== claims
\* process_single_pdf has returned to its caller.
Returned == call.outcome \in {"Completed", "Failed"}

\* A record the validation loop of the code accepts.
Accepted(entry) == ~EntryRaises(entry) /\ MissingFields(entry) = <<>>

Last(seq) == seq[Len(seq)]

\* C1: in every call in which upload_file returned a handle, delete_file is
\* invoked exactly once, in the finally block and so not before the call is
\* over, on every exit path; a failing delete_file leaves the returned
\* result as the try or except block set it.
C1_DeleteExactlyOnce ==
    /\ call.outcome = "running" => call.delete = 0
    /\ Returned /\ call.handle => call.delete = 1
    /\ Returned /\ call.deleteRaised =>
          /\ Last(results).ret = ret
          /\ Last(results).exit = call.exit
          /\ call.outcome = (IF call.exit = "except" THEN "Failed" ELSE "Completed")

\* A call that failed while polling (get_file raised) and whose delete_file
\* raised as well.
C1_Witness ==
    /\ Returned
    /\ call.handle
    /\ call.polls > 0
    /\ call.lastFetch = "raise"
    /\ call.deleteRaised
    /\ call.delete = 1

\* A stage of the call failed: upload, re-fetch, ready-check, generate,
\* decode, or the validation of some candidate.
StageFailed ==
    \/ call.lastFetch \notin {"PROCESSING", "ACTIVE"}
    \/ call.response \in {"raise", "not_json", "number"}
    \/ \E i \in 1..Len(batch_data) : EntryRaises(batch_data[i])

\* C2: a call ends either Completed, with the validated records and no error
\* message, or Failed, with an empty sequence and exactly one error message;
\* every stage failure ends Failed, and a reported failure never comes with
\* a non-empty result.
C2_TwoOutcomes ==
    /\ call.errors > 0 => ret = <<>>
    /\ Returned =>
         /\ Last(results).ret = ret
         /\ \/ /\ call.outcome = "Completed"
               /\ ~StageFailed
               /\ call.errors = 0
               /\ ret = SelectSeq(batch_data, Accepted)
            \/ /\ call.outcome = "Failed"
               /\ StageFailed
               /\ call.errors = 1
               /\ ret = <<>>

\* A call that failed in the validation loop after it had accepted a record,
\* and whose cleanup failed too.
C2_Witness ==
    /\ Returned
    /\ call.outcome = "Failed"
    /\ Len(batch_data) >= 2
    /\ Accepted(batch_data[1])
    /\ EntryRaises(batch_data[2])
    /\ call.deleteRaised

\* C9: generate_content is called at most once in a call and only with the
\* last fetched state ACTIVE; when the loop ends on any other state the call
\* fails with one error message, never calls generate_content and returns
\* no record.
C9_GenerateOnlyWhenActive ==
    /\ call.generate <= 1
    /\ call.generate = 1 => call.lastFetch = "ACTIVE"
    /\ pc = "generate" => uploaded_file.state = "ACTIVE" /\ call.generate = 0
    /\ call.lastFetch \in FileStates \ {"PROCESSING", "ACTIVE"} =>
         /\ call.generate = 0
         /\ call.exit = "except"
         /\ call.errors = 1
         /\ ret = <<>>
         /\ pc # "generate"
         /\ Returned => call.outcome = "Failed" /\ Last(results).ret = <<>>

\* A call that polled and then saw a state that is neither ACTIVE nor FAILED.
C9_Witness ==
    /\ Returned
    /\ call.polls > 0
    /\ call.lastFetch = "STATE_UNSPECIFIED"
    /\ call.outcome = "Failed"

\* The run of a front end over a non-empty file set is over.
RunOver == pc = "idle" /\ runs > 0 /\ files_to_process # <<>>

\* What the finished calls of the run returned, one after the other.
RECURSIVE Returns(_)
Returns(rs) == IF rs = <<>> THEN <<>> ELSE Head(rs).ret \o Returns(Tail(rs))

\* C3: in a run of main_cli a failing document does not end the batch: the
\* documents are processed one by one in the order of the file set, every
\* one of them whatever the earlier ones did, and the records of all the
\* documents that did not fail are in the accumulator and, at the end, in
\* the output file after what it held before.
C3_FailureDoesNotAbortBatch ==
    mode = "cli" =>
      /\ \A i \in 1..Len(results) : results[i].idx = i
      /\ all_data = Returns(results)
      /\ pc \in {"upload", "poll", "generate", "cleanup"} =>
            Len(results) = idx - 1 /\ idx <= Len(files_to_process)
      /\ pc = "persist" => Len(results) = Len(files_to_process)
      /\ RunOver =>
            /\ Len(results) = Len(files_to_process)
            /\ outfile.lines = pre.lines \o DumpsAll(Returns(results))

\* A finished run of main_cli whose first document failed and whose second
\* document gave records, which are in the output file.
C3_Witness ==
    /\ RunOver
    /\ mode = "cli"
    /\ Len(results) = 2
    /\ results[1].exit = "except"
    /\ results[2].ret # <<>>
    /\ outfile.lines # pre.lines

\* page_number is an integer, source_quote has at least 10 characters and
\* section is not empty: on a record, and on a line of the output file.
RecordCited(entry) ==
    /\ entry.kind = "dict"
    /\ entry.page_number.t = "int"
    /\ entry.source_quote.t = "str" /\ entry.source_quote.n >= MinQuoteLen
    /\ entry.section.t = "str" /\ entry.section.n > 0

LineCited(line) ==
    /\ line.page_number.tok = "number"
    /\ line.source_quote.tok = "string" /\ line.source_quote.n >= MinQuoteLen
    /\ line.section.tok = "string" /\ line.section.n > 0

\* C4: every record process_single_pdf returns, every record of the
\* accumulator all_data and every line of the output file has an integer
\* page_number, a source_quote of at least 10 characters and a non-empty
\* section.
C4_EveryRecordCited ==
    /\ \A i \in 1..Len(ret) : RecordCited(ret[i])
    /\ \A i \in 1..Len(all_data) : RecordCited(all_data[i])
    /\ \A i \in 1..Len(outfile.lines) : LineCited(outfile.lines[i])

\* The three checks as stated: which of the fields of a candidate fail.
FailedFields(entry) ==
    (IF entry.kind = "dict" /\ entry.page_number.t = "int" THEN {} ELSE {"page_number"})
    \cup (IF /\ entry.kind = "dict"
             /\ entry.source_quote.t \in {"str", "list"}
             /\ entry.source_quote.n >= MinQuoteLen
          THEN {} ELSE {"source_quote"})
    \cup (IF entry.kind = "dict" /\ Truthy(entry.section) THEN {} ELSE {"section"})

Passes(entry) == FailedFields(entry) = {}

Range(seq) == {seq[i] : i \in 1..Len(seq)}

\* The field a label of a rejection names.
FieldNamed(label) ==
    IF label = "source_quote (min 10 chars)" THEN "source_quote" ELSE label

\* C5: of the candidates of a decoded array, the processor returns exactly
\* those that pass the three checks, unchanged and in their order, and logs
\* one rejection for each of the others, which names exactly its failed
\* fields.
C5_ValidatorAcceptsExactlyPassing ==
    (pc = "cleanup" /\ call.response = "array") =>
        /\ ret = SelectSeq(batch_data, Passes)
        /\ Len(warnings) = Len(batch_data) - Len(ret)
        /\ \A w \in Range(warnings) :
              /\ ~Passes(batch_data[w.idx])
              /\ {FieldNamed(l) : l \in Range(w.missing)} = FailedFields(batch_data[w.idx])
        /\ \A i \in 1..Len(batch_data) :
              ~Passes(batch_data[i]) => \E w \in Range(warnings) : w.idx = i

\* C6: when main_cli finds no PDF (the path is a file not ending in .pdf, a
\* directory without an entry ending in .pdf in any case, or neither a file
\* nor a directory) it reports the warning and stops: the output file is as
\* it was, neither created nor changed, and no remote call is made.
C6_NoFilesTouchesNothing ==
    (/\ mode = "cli"
     /\ runs > 0
     /\ \/ input_path.kind = "missing"
        \/ input_path.kind = "file" /\ input_path.name = NameTxt
        \/ input_path.kind = "dir" /\ input_path.entries \subseteq {NameTxt}) =>
        /\ files_to_process = <<>>
        /\ pc = "idle"
        /\ notice = "no_pdf_found"
        /\ outfile = pre
        /\ ~remoteUsed
        /\ call = NoCall
        /\ results = <<>>

\* main_cli was given a directory that holds only a text file, with the
\* output file of an earlier run in place.
C6_Witness ==
    /\ mode = "cli"
    /\ input_path.kind = "dir"
    /\ input_path.entries = {NameTxt}
    /\ pre.exists
    /\ pre.lines # <<>>
    /\ notice = "no_pdf_found"

\* C7 as stated: after a run of main_cli over a non-empty file set the
\* output file exists and holds what it held before and then one line for
\* each accumulated record, also when there is no record at all.
C7_AlwaysPersists ==
    (RunOver /\ mode = "cli") =>
        /\ outfile.exists
        /\ outfile.lines = pre.lines \o DumpsAll(all_data)

\* C7, amended: after such a run, if a record was accumulated the output
\* file exists and holds what it held before and then one line for each
\* accumulated record; if none was, the file is not opened: it is as it was
\* and the run says that no data was extracted.
C7_PersistsWhenData ==
    (RunOver /\ mode = "cli") =>
        /\ Len(results) = Len(files_to_process)
        /\ IF all_data # <<>>
           THEN /\ outfile.exists
                /\ outfile.lines = pre.lines \o DumpsAll(all_data)
                /\ Len(outfile.lines) = Len(pre.lines) + Len(all_data)
                /\ notice = "task_complete"
           ELSE /\ outfile = pre
                /\ notice = "no_data_extracted"

\* A finished run of main_cli that appended its records to a file that held
\* lines already.
C7_Witness ==
    /\ RunOver
    /\ mode = "cli"
    /\ pre.exists
    /\ pre.lines # <<>>
    /\ Len(all_data) >= 2

\* A sequence begins with another.
IsPrefix(a, b) == Len(a) <= Len(b) /\ SubSeq(b, 1, Len(a)) = a

\* What the finished runs appended, one run after the other.
RECURSIVE Appended(_)
Appended(ws) == IF ws = <<>> THEN <<>> ELSE Head(ws) \o Appended(Tail(ws))

\* <<run, document, candidate>> of one line is before that of another.
Before(a, b) ==
    \/ a[1] < b[1]
    \/ a[1] = b[1] /\ a[2] < b[2]
    \/ a[1] = b[1] /\ a[2] = b[2] /\ a[3] < b[3]

\* The lines are in the order of the runs, within a run of its documents,
\* within a document of its candidates.
InOrder(lines) ==
    \A i, j \in 1..Len(lines) : i < j => Before(lines[i].instruction, lines[j].instruction)

\* C8: the output file only grows at its end: no step of a run of either
\* front end removes the file or changes a line it holds, the file holds
\* what the finished runs appended, an earlier run's lines before a later
\* run's, and the lines of one run are in the order of its documents and,
\* for one document, of its accepted candidates.
C8_AppendOnly ==
    /\ [][/\ IsPrefix(outfile.lines, outfile'.lines)
          /\ outfile.exists => outfile'.exists]_vars
    /\ [](/\ outfile.lines = Appended(written)
          /\ InOrder(outfile.lines)
          /\ pc = "idle" => Len(written) = runs /\ IsPrefix(pre.lines, outfile.lines)
          /\ (pc = "idle" /\ all_data # <<>>) =>
                /\ Last(written) = DumpsAll(all_data)
                /\ outfile.lines = pre.lines \o Last(written))

\* Two finished runs that both appended records, the second one from the
\* browser with records of two documents.
C8_Witness ==
    /\ pc = "idle"
    /\ runs = 2
    /\ mode = "streamlit"
    /\ written[1] # <<>>
    /\ Len(results) = 2
    /\ results[1].ret # <<>>
    /\ results[2].ret # <<>>
    /\ Len(outfile.lines) = Len(written[1]) + Len(all_data)

\* C10: the loop re-fetches the state for as long as it is PROCESSING, with
\* no bound on the turns.  While the last state fetched is PROCESSING the
\* call stays in the loop: it makes no generate_content and no delete_file
\* call and the batch stays at this document; it leaves the loop only on a
\* fetch that gives another state or raises.  When the service in the end
\* gives another state, or a call fails, the call ends, Completed or Failed,
\* with the handle released.
C10_AwaitReady ==
    /\ [](pc = "poll" =>
            /\ uploaded_file.state = "PROCESSING"
            /\ call.outcome = "running"
            /\ call.generate = 0
            /\ call.delete = 0)
    /\ [][pc = "poll" =>
            IF call'.lastFetch = "PROCESSING"
            THEN pc' = "poll" /\ idx' = idx /\ call'.generate = 0 /\ call'.delete = 0
            ELSE pc' \in {"generate", "cleanup"}]_vars
    /\ (pc = "poll" ~> (Returned /\ call.polls > 0 /\ call.delete = 1))

\* The loop has turned as often as the model counts, the state still
\* PROCESSING.
C10_Witness ==
    /\ pc = "poll"
    /\ call.polls = MaxPolls
    /\ call.lastFetch = "PROCESSING"

====
